---- MODULE Spec2Model ----
\* Model of lambda_function.py: one Lambda invocation that resolves a student's
\* course list against the course-skill registry (find_relevant_courses), folds
\* the matched courses' curated skills into per-skill records (package_skills),
\* picks three skills of interest (get_skills_of_interest) and assembles the
\* response (lambda_handler).
\*
\* Representation.
\*   - A Python str that the code inspects character by character (a course code)
\*     is a sequence of one-character strings, so that upper() and `in` are
\*     computed and not assumed.
\*   - A dict that is iterated (student_skills) is the sequence of its entries in
\*     insertion order, which is the order Python iterates it in; each entry is
\*     the value's fields together with the key, as the field id.
\*   - sum / len is Python's true division; its result is kept as the reduced
\*     fraction <<numerator, denominator>>, which orders and compares exactly as
\*     the floats do for the small integers used here.
\*   - A key that a dict does not hold yet (skill_level_average, pathways) is
\*     the field holding NoAverage / NoPathways.
EXTENDS Integers, Sequences, FiniteSets, TLC

-----------------------------------------------------------------------------
\* Bounds of the explored inputs.

\* registry entries (matching domain)
MaxCourses == 2
\* entries of coursesList
MaxQueries == 2
\* curated skills in the whole registry (aggregation domain)
MaxCurated == 3
\* calls of get_skills_of_interest on one map (SpecReselect only)
MaxSelectRuns == 2

-----------------------------------------------------------------------------
\* Values.

None == "None"
NoAverage == <<>>
NoPathways == ""

Range(s) == {s[i] : i \in 1..Len(s)}

SeqsUpTo(S, n) == UNION {[1..k -> S] : k \in 0..n}

\* str.upper() on one character, then on a string.
ToUpper(ch) == IF ch = "c" THEN "C" ELSE ch

Upper(s) == [i \in 1..Len(s) |-> ToUpper(s[i])]

\* Python's `sub in s` on strings.
Contains(sub, s) ==
    \E k \in 0..(Len(s) - Len(sub)) : \A i \in 1..Len(sub) : s[k + i] = sub[i]

\* Truthiness of a str: `if course["code"]`.
Truthy(s) == s # <<>>

RECURSIVE GCD(_, _)
GCD(a, b) == IF b = 0 THEN a ELSE GCD(b, a % b)

\* sum / n as a reduced fraction (n >= 1).
TrueDiv(sum, n) == LET g == GCD(sum, n) IN <<sum \div g, n \div g>>

\* a > b on such fractions (denominators positive).
FracGreater(a, b) == a[1] * b[2] > b[1] * a[2]

\* float("inf") and the numbers compared with it.
FloatInf == [inf |-> TRUE, v |-> 0]

Finite(n) == [inf |-> FALSE, v |-> n]

\* frequency < threshold, the threshold being FloatInf or Finite(n).
LessThan(f, t) == t.inf \/ f < t.v

-----------------------------------------------------------------------------
\* Input domains.

SkillIds == {"s1", "s2"}

\* Zero is included: the code accepts it, and the average of such levels is
\* not greater than the initial max_average_level.
Levels == {0, 1, 2}

\* Name, category and frequency of each skill, in two versions of the skill
\* catalogue.  The versions disagree on every field of every skill, as the
\* entries of one skill may across courses.
CatalogueA ==
    [ s1 |-> [skill |-> "Writing", skill_category |-> "Communication", frequency |-> 1],
      s2 |-> [skill |-> "Welding", skill_category |-> "Trades", frequency |-> 2] ]

CatalogueB ==
    [ s1 |-> [skill |-> "Composition", skill_category |-> "Language", frequency |-> 2],
      s2 |-> [skill |-> "Metalwork", skill_category |-> "Industry", frequency |-> 1] ]

Catalogues == {CatalogueA, CatalogueB}

\* An entry of skills_curated.
SkillEntry(catalogue, id, level) ==
    [ skill_id |-> id, skill |-> catalogue[id].skill,
      skill_category |-> catalogue[id].skill_category,
      frequency |-> catalogue[id].frequency, skill_level |-> level ]

Course(code, skills) == [code |-> code, name |-> "course", skills_curated |-> skills]

\* Registry codes of the matching domain: empty, lower case, two codes that
\* share a prefix.
RegistryCodes == { <<>>, <<"C", "1">>, <<"c", "1">>, <<"C", "2">> }

QueryCodes == { <<"C">>, <<"1">>, <<"2">>, <<"c", "1">> }

\* Registries of the matching domain: up to MaxCourses courses, each with no
\* curated skill or one.
MatchRegistries ==
    SeqsUpTo({ Course(c, s) : c \in RegistryCodes,
                              s \in {<<>>, <<SkillEntry(CatalogueA, "s1", 1)>>} },
             MaxCourses)

\* Registries of the aggregation domain: the courses C1 and C2, each written
\* from one version of the catalogue, with every choice of (skill id, level)
\* lists that holds up to MaxCurated entries in all.
AggCode(digit) == <<"C", digit>>

AggQueryCodes == {AggCode("1"), AggCode("2")}

CuratedPairs(n) == SeqsUpTo(SkillIds \X Levels, n)

Curated(catalogue, pairs) ==
    [j \in 1..Len(pairs) |-> SkillEntry(catalogue, pairs[j][1], pairs[j][2])]

AggRegistry(catalogue1, pairs1, catalogue2, pairs2) ==
    << Course(AggCode("1"), Curated(catalogue1, pairs1)),
       Course(AggCode("2"), Curated(catalogue2, pairs2)) >>

\* coursesList: (title, code) pairs.
QueryLists(codes) == SeqsUpTo({<<"title", c>> : c \in codes}, MaxQueries)

\* event["body"]: the keys it holds and its coursesList.
Bodies(codes) ==
    { [keys |-> {}, coursesList |-> <<>>], [keys |-> {"source"}, coursesList |-> <<>>] }
    \cup { [keys |-> {"coursesList"}, coursesList |-> q] : q \in QueryLists(codes) }

-----------------------------------------------------------------------------
\* find_relevant_courses

\* all_course_codes, line 25.
AllCourseCodes(all_courses) ==
    LET kept == SelectSeq(all_courses, LAMBDA course : Truthy(course.code))
    IN  [i \in 1..Len(kept) |-> Upper(kept[i].code)]

\* The courses line 32 adds for one code_to_evaluate.
CoursesWithCode(all_courses, code_to_evaluate) ==
    SelectSeq(all_courses, LAMBDA course : course.code = code_to_evaluate)

\* candidates of one query, lines 29-32; k runs over all_course_codes.
RECURSIVE CandidatesFrom(_, _, _, _)
CandidatesFrom(k, all_course_codes, given_code, all_courses) ==
    IF k > Len(all_course_codes) THEN <<>>
    ELSE (IF Contains(given_code, all_course_codes[k])
          THEN CoursesWithCode(all_courses, all_course_codes[k])
          ELSE <<>>)
         \o CandidatesFrom(k + 1, all_course_codes, given_code, all_courses)

Candidates(given_code, all_courses) ==
    CandidatesFrom(1, AllCourseCodes(all_courses), given_code, all_courses)

\* AppendFound, were a course that is already in the list skipped.
AppendFoundOnce(found, course) ==
    IF course \in Range(found) THEN found ELSE Append(found, course)

\* found_student_courses.append(candidates[0]), line 35.
AppendFound(found, course) == Append(found, course)

\* AppendMissing, were the list rebuilt for each query instead of extended.
AppendMissingLastOnly(missing, given_title, given_code) ==
    << <<given_title, given_code>> >>

\* missing_codes.append([given_title, given_code]), lines 39 and 42.
AppendMissing(missing, given_title, given_code) ==
    Append(missing, <<given_title, given_code>>)

-----------------------------------------------------------------------------
\* package_skills

HasSkill(student_skills, id) == \E i \in 1..Len(student_skills) : student_skills[i].id = id

IndexOfSkill(student_skills, id) ==
    CHOOSE i \in 1..Len(student_skills) : student_skills[i].id = id

\* The record of lines 59-67.
NewSkillRecord(course, skill) ==
    [ id |-> skill.skill_id,
      name |-> skill.skill,
      category |-> skill.skill_category,
      frequency |-> skill.frequency,
      count |-> 1,
      max_skill_level |-> skill.skill_level,
      sum_skill_level |-> skill.skill_level,
      courses |-> << <<course.code, skill.skill_level>> >>,
      skill_level_average |-> NoAverage,
      pathways |-> NoPathways ]

\* UpdatedSkillRecord, were line 73 left out.
UpdatedSkillRecordNoCourse(rec, course, skill) ==
    [ rec EXCEPT
        !.count = @ + 1,
        !.max_skill_level = IF skill.skill_level > @ THEN skill.skill_level ELSE @,
        !.sum_skill_level = @ + skill.skill_level ]

\* UpdatedSkillRecord, were the test of line 70 left out.
UpdatedSkillRecordLastLevel(rec, course, skill) ==
    [ rec EXCEPT
        !.count = @ + 1,
        !.max_skill_level = skill.skill_level,
        !.sum_skill_level = @ + skill.skill_level,
        !.courses = Append(@, <<course.code, skill.skill_level>>) ]

\* UpdatedSkillRecord, were the metadata refreshed from every occurrence.
UpdatedSkillRecordLastMeta(rec, course, skill) ==
    [ rec EXCEPT
        !.name = skill.skill,
        !.category = skill.skill_category,
        !.frequency = skill.frequency,
        !.count = @ + 1,
        !.max_skill_level = IF skill.skill_level > @ THEN skill.skill_level ELSE @,
        !.sum_skill_level = @ + skill.skill_level,
        !.courses = Append(@, <<course.code, skill.skill_level>>) ]

\* The update of lines 69-73.
UpdatedSkillRecord(rec, course, skill) ==
    [ rec EXCEPT
        !.count = @ + 1,
        !.max_skill_level = IF skill.skill_level > @ THEN skill.skill_level ELSE @,
        !.sum_skill_level = @ + skill.skill_level,
        !.courses = Append(@, <<course.code, skill.skill_level>>) ]

\* One iteration of the inner loop, lines 57-73.
Upsert(student_skills, course, skill) ==
    IF ~HasSkill(student_skills, skill.skill_id)
    THEN Append(student_skills, NewSkillRecord(course, skill))
    ELSE LET i == IndexOfSkill(student_skills, skill.skill_id)
         IN  [student_skills EXCEPT ![i] = UpdatedSkillRecord(@, course, skill)]

-----------------------------------------------------------------------------
\* get_skills_of_interest

\* Lines 77-82.
ScanStart ==
    [ max_count_skill |-> None, max_count |-> 0,
      max_level_skill |-> None, max_average_level |-> <<0, 1>>,
      unique_skill |-> None, unique_skill_frequency |-> FloatInf ]

\* skill_average, line 88.
SkillAverage(skill_data) == TrueDiv(skill_data.sum_skill_level, Len(skill_data.courses))

\* ScanStep, were the three comparisons >=, >= and <=: the last of equals wins.
ScanStepLastWins(acc, skill_data) ==
    LET byCount == skill_data.count >= acc.max_count
        byLevel == ~FracGreater(acc.max_average_level, SkillAverage(skill_data))
        byFreq  == \/ acc.unique_skill_frequency.inf
                   \/ skill_data.frequency <= acc.unique_skill_frequency.v
    IN  [ max_count_skill |-> IF byCount THEN skill_data.id ELSE acc.max_count_skill,
          max_count |-> IF byCount THEN skill_data.count ELSE acc.max_count,
          max_level_skill |-> IF byLevel THEN skill_data.id ELSE acc.max_level_skill,
          max_average_level |->
              IF byLevel THEN SkillAverage(skill_data) ELSE acc.max_average_level,
          unique_skill |-> IF byFreq THEN skill_data.id ELSE acc.unique_skill,
          unique_skill_frequency |->
              IF byFreq THEN Finite(skill_data.frequency) ELSE acc.unique_skill_frequency ]

\* One iteration of the loop, lines 84-96, on the scan's local variables.
ScanStep(acc, skill_data) ==
    LET byCount == skill_data.count > acc.max_count
        byLevel == FracGreater(SkillAverage(skill_data), acc.max_average_level)
        byFreq  == LessThan(skill_data.frequency, acc.unique_skill_frequency)
    IN  [ max_count_skill |-> IF byCount THEN skill_data.id ELSE acc.max_count_skill,
          max_count |-> IF byCount THEN skill_data.count ELSE acc.max_count,
          max_level_skill |-> IF byLevel THEN skill_data.id ELSE acc.max_level_skill,
          max_average_level |->
              IF byLevel THEN SkillAverage(skill_data) ELSE acc.max_average_level,
          unique_skill |-> IF byFreq THEN skill_data.id ELSE acc.unique_skill,
          unique_skill_frequency |->
              IF byFreq THEN Finite(skill_data.frequency) ELSE acc.unique_skill_frequency ]

RECURSIVE ScanFrom(_, _, _)
ScanFrom(k, all_skills, acc) ==
    IF k > Len(all_skills) THEN acc
    ELSE ScanFrom(k + 1, all_skills, ScanStep(acc, all_skills[k]))

\* The list returned at line 99.
SkillsOfInterest(all_skills) ==
    LET acc == ScanFrom(1, all_skills, ScanStart)
    IN  <<acc.max_count_skill, acc.max_level_skill, acc.unique_skill>>

\* WithAverages, were the sum divided in place (sum_skill_level //= len).
WithAveragesInPlace(all_skills) ==
    [k \in 1..Len(all_skills) |->
        [all_skills[k] EXCEPT
            !.skill_level_average = SkillAverage(all_skills[k]),
            !.sum_skill_level = @ \div Len(all_skills[k].courses)]]

\* all_skills as the loop leaves it: line 89 stores the average on every record.
WithAverages(all_skills) ==
    [k \in 1..Len(all_skills) |->
        [all_skills[k] EXCEPT !.skill_level_average = SkillAverage(all_skills[k])]]

-----------------------------------------------------------------------------
\* The invocation.

VARIABLES
    body,                   \* event["body"], parsed
    s3_object,              \* the registry the S3 object holds
    pc,                     \* where the invocation stands
    error,                  \* the exception that ended it, or None
    all_courses,            \* load_skills_dataset's result
    qi,                     \* find_relevant_courses: index of the next query
    found_student_courses,
    missing_codes,
    log,                    \* what find_relevant_courses printed
    course_skill_data,      \* find_relevant_courses' return value
    ci, si,                 \* package_skills: next course, next curated skill
    student_skills,
    select_runs,            \* calls of get_skills_of_interest so far
    skills_of_interest,     \* get_skills_of_interest's return value
    response

vars == << body, s3_object, pc, error, all_courses, qi, found_student_courses,
           missing_codes, log, course_skill_data, ci, si, student_skills,
           select_runs, skills_of_interest, response >>

matchVars == <<qi, found_student_courses, missing_codes, log, course_skill_data>>

packVars == <<ci, si, student_skills>>

selVars == <<select_runs, skills_of_interest>>

NoResponse == [status |-> None]

InitLocals ==
    /\ pc = "validate"
    /\ error = None
    /\ all_courses = <<>>
    /\ qi = 1
    /\ found_student_courses = <<>>
    /\ missing_codes = <<>>
    /\ log = <<>>
    /\ course_skill_data = <<>>
    /\ ci = 1
    /\ si = 1
    /\ student_skills = <<>>
    /\ select_runs = 0
    /\ skills_of_interest = <<>>
    /\ response = NoResponse

\* The matching domain.
Init ==
    /\ body \in Bodies(QueryCodes)
    /\ s3_object \in MatchRegistries
    /\ InitLocals

\* The aggregation domain.
InitAgg ==
    /\ body \in Bodies(AggQueryCodes)
    /\ \E catalogue1, catalogue2 \in Catalogues :
          \E pairs1 \in CuratedPairs(MaxCurated) :
              \E pairs2 \in CuratedPairs(MaxCurated - Len(pairs1)) :
                  s3_object = AggRegistry(catalogue1, pairs1, catalogue2, pairs2)
    /\ InitLocals

\* lambda_handler, lines 157-172: the two rejections.
Validate ==
    /\ pc = "validate"
    /\ IF body.keys = {}
       THEN /\ pc' = "done"
            /\ response' = [statusCode |-> 400,
                            body |-> "Invalid input: body cannot be empty."]
       ELSE IF "coursesList" \notin body.keys
       THEN /\ pc' = "done"
            /\ response' = [statusCode |-> 400,
                            body |-> "Invalid input: coursesList and source are required."]
       ELSE /\ pc' = "load"
            /\ UNCHANGED response
    /\ UNCHANGED <<body, s3_object, error, all_courses, matchVars, packVars, selVars>>

\* load_skills_dataset, lines 13-22: the object is read and parsed.
LoadSkillsDataset ==
    /\ pc = "load"
    /\ all_courses' = s3_object
    /\ pc' = "find"
    /\ UNCHANGED <<body, s3_object, error, matchVars, packVars, selVars, response>>

\* load_skills_dataset, lines 15-16 and 20-21: S3 answers with another status,
\* or the content does not parse; the exception ends the invocation.
LoadFails ==
    /\ pc = "load"
    /\ pc' = "failed"
    /\ error' = "RegistryUnavailable"
    /\ UNCHANGED <<body, s3_object, all_courses, matchVars, packVars, selVars, response>>

\* The two lines printed for a query with several candidates, lines 37-38.
CandidatesLine(candidates, given_code, given_title) ==
    [ msg |-> "candidates were found", n |-> Len(candidates),
      code |-> given_code, title |-> given_title,
      listing |-> [k \in 1..Len(candidates) |-> <<candidates[k].code, candidates[k].name>>] ]

\* The line printed for a query with no candidate, line 41.
NotFoundLine(given_code) == [msg |-> "not found", code |-> given_code]

\* The two lines printed before the return, lines 44-45.
WarningLine(missing) == [msg |-> "warning", n |-> Len(missing), missing |-> missing]

\* find_relevant_courses, lines 28-42: one query.
FindStep ==
    /\ pc = "find"
    /\ qi <= Len(body.coursesList)
    /\ LET given_title == body.coursesList[qi][1]
           given_code  == body.coursesList[qi][2]
           candidates  == Candidates(given_code, all_courses)
       IN  IF Len(candidates) = 1
           THEN /\ found_student_courses' = AppendFound(found_student_courses, candidates[1])
                /\ UNCHANGED <<missing_codes, log>>
           ELSE IF Len(candidates) # 0
           THEN /\ missing_codes' = AppendMissing(missing_codes, given_title, given_code)
                /\ log' = Append(log, CandidatesLine(candidates, given_code, given_title))
                /\ UNCHANGED found_student_courses
           ELSE /\ missing_codes' = AppendMissing(missing_codes, given_title, given_code)
                /\ log' = Append(log, NotFoundLine(given_code))
                /\ UNCHANGED found_student_courses
    /\ qi' = qi + 1
    /\ UNCHANGED <<body, s3_object, pc, error, all_courses, course_skill_data,
                   packVars, selVars, response>>

\* find_relevant_courses, lines 44-46, and get_course_data, line 51: the
\* warning is printed and the found courses alone are returned.
FindReturn ==
    /\ pc = "find"
    /\ qi > Len(body.coursesList)
    /\ log' = Append(log, WarningLine(missing_codes))
    /\ course_skill_data' = found_student_courses
    /\ pc' = "package"
    /\ UNCHANGED <<body, s3_object, error, all_courses, qi, found_student_courses,
                   missing_codes, packVars, selVars, response>>

\* package_skills, lines 56-73: one curated skill of the current course.
PackageSkill ==
    /\ pc = "package"
    /\ ci <= Len(course_skill_data)
    /\ si <= Len(course_skill_data[ci].skills_curated)
    /\ student_skills' = Upsert(student_skills, course_skill_data[ci],
                                course_skill_data[ci].skills_curated[si])
    /\ si' = si + 1
    /\ UNCHANGED <<body, s3_object, pc, error, all_courses, matchVars, ci, selVars,
                   response>>

\* package_skills, line 55: the inner loop is exhausted, the next course.
PackageNextCourse ==
    /\ pc = "package"
    /\ ci <= Len(course_skill_data)
    /\ si > Len(course_skill_data[ci].skills_curated)
    /\ ci' = ci + 1
    /\ si' = 1
    /\ UNCHANGED <<body, s3_object, pc, error, all_courses, matchVars, student_skills,
                   selVars, response>>

\* package_skills, line 74.
PackageReturn ==
    /\ pc = "package"
    /\ ci > Len(course_skill_data)
    /\ pc' = "select"
    /\ UNCHANGED <<body, s3_object, error, all_courses, matchVars, packVars, selVars,
                   response>>

\* get_skills_of_interest, lines 76-99, called at line 178.
GetSkillsOfInterest ==
    /\ pc = "select"
    /\ skills_of_interest' = SkillsOfInterest(student_skills)
    /\ student_skills' = WithAverages(student_skills)
    /\ select_runs' = select_runs + 1
    /\ pc' = "respond"
    /\ UNCHANGED <<body, s3_object, error, all_courses, matchVars, ci, si, response>>

\* lambda_handler, line 179: student_skills[id] of an id the map does not hold
\* (None) raises KeyError.
RespondKeyError ==
    /\ pc = "respond"
    /\ \E k \in 1..3 : ~HasSkill(student_skills, skills_of_interest[k])
    /\ pc' = "failed"
    /\ error' = "KeyError"
    /\ UNCHANGED <<body, s3_object, all_courses, matchVars, packVars, selVars, response>>

\* skill["pathways"] = invoke_bedrock(...), line 131; the text is the service's.
WithPathways(student_skills_, ids) ==
    [k \in 1..Len(student_skills_) |->
        IF student_skills_[k].id \in Range(ids)
        THEN [student_skills_[k] EXCEPT !.pathways = "pathways"]
        ELSE student_skills_[k]]

\* lambda_handler, lines 179-198.
Respond ==
    /\ pc = "respond"
    /\ \A k \in 1..3 : HasSkill(student_skills, skills_of_interest[k])
    /\ student_skills' = WithPathways(student_skills, skills_of_interest)
    /\ response' =
         [ status |-> 200,
           body |->
             [ count |-> ToString(Len(student_skills)),
               skills_of_interest |->
                 [k \in 1..3 |->
                    student_skills'[IndexOfSkill(student_skills, skills_of_interest[k])]],
               summary |-> "summary",
               course_ids |-> [k \in 1..Len(course_skill_data) |-> course_skill_data[k].code] ] ]
    /\ pc' = "done"
    /\ UNCHANGED <<body, s3_object, error, all_courses, matchVars, ci, si, selVars>>

\* A second call of get_skills_of_interest on the map the first one left
\* (lines 76-99 again; lambda_handler itself calls it once).
Reselect ==
    /\ pc = "respond"
    /\ select_runs < MaxSelectRuns
    /\ skills_of_interest' = SkillsOfInterest(student_skills)
    /\ student_skills' = WithAverages(student_skills)
    /\ select_runs' = select_runs + 1
    /\ UNCHANGED <<body, s3_object, pc, error, all_courses, matchVars, ci, si, response>>

Next ==
    \/ Validate
    \/ LoadSkillsDataset
    \/ LoadFails
    \/ FindStep
    \/ FindReturn
    \/ PackageSkill
    \/ PackageNextCourse
    \/ PackageReturn
    \/ GetSkillsOfInterest
    \/ RespondKeyError
    \/ Respond

NextReselect == Next \/ Reselect

Spec == Init /\ [][Next]_vars

SpecAgg == InitAgg /\ [][Next]_vars

SpecReselect == InitAgg /\ [][NextReselect]_vars

-----------------------------------------------------------------------------
\* Vocabulary of the properties.

Queries == body.coursesList

\* find_relevant_courses has returned to lambda_handler.
FindReturned ==
    /\ "coursesList" \in body.keys
    /\ pc \notin {"validate", "load", "find"}
    /\ error # "RegistryUnavailable"

\* package_skills has returned.
PackageReturned == FindReturned /\ pc # "package"

\* get_skills_of_interest has returned.
Selected == select_runs >= 1

\* The registry entries whose uppercased code contains given_code, entries with
\* an empty code left out: the candidates as the specification counts them.
UpperMatches(given_code) ==
    { k \in 1..Len(all_courses) :
        /\ Truthy(all_courses[k].code)
        /\ Contains(given_code, Upper(all_courses[k].code)) }

\* The number of candidates the code collects for query i.
NumCandidates(i) == Len(Candidates(Queries[i][2], all_courses))

\* The k-th smallest member of a set of indices.
NthOf(S, k) == CHOOSE i \in S : Cardinality({j \in S : j < i}) = k - 1

\* Among the first n queries, those the code matches and those it does not.
MatchedIdx(n) == {i \in 1..n : NumCandidates(i) = 1}

UnmatchedIdx(n) == {i \in 1..n : NumCandidates(i) # 1}

\* (course code, curated entry) of every curated skill of `courses` from the
\* k-th course on, in processing order.
RECURSIVE OccurrencesFrom(_, _)
OccurrencesFrom(k, courses) ==
    IF k > Len(courses) THEN <<>>
    ELSE [j \in 1..Len(courses[k].skills_curated) |->
             <<courses[k].code, courses[k].skills_curated[j]>>]
         \o OccurrencesFrom(k + 1, courses)

OccurrencesOf(id, courses) ==
    SelectSeq(OccurrencesFrom(1, courses), LAMBDA o : o[2].skill_id = id)

RECURSIVE SumLevels(_)
SumLevels(occ) == IF occ = <<>> THEN 0 ELSE occ[1][2].skill_level + SumLevels(Tail(occ))

MaxOf(S) == CHOOSE m \in S : \A x \in S : x <= m

-----------------------------------------------------------------------------
\* C1: a query whose code is a substring of exactly one uppercased registry code
\* (entries with an empty code left out) has that registry course in the list
\* find_relevant_courses returns.
C1_UniqueUpperMatchIsReturned ==
    FindReturned =>
        \A i \in 1..Len(Queries) : \A k \in 1..Len(all_courses) :
            UpperMatches(Queries[i][2]) = {k}
                => all_courses[k] \in Range(course_skill_data)

\* C2: a query whose code is a substring of no uppercased registry code, or of
\* two or more (duplicates counted), adds no course to the matched list.
C2_AmbiguousNeverMatched ==
    [][ ( /\ pc = "find"
          /\ qi <= Len(Queries)
          /\ Cardinality(UpperMatches(Queries[qi][2])) # 1 )
        => found_student_courses' = found_student_courses ]_vars

\* The unresolved entry the specification's MatchResult holds for query i.
UnresolvedEntry(i) ==
    [ title |-> Queries[i][1], code |-> Queries[i][2],
      reason |-> IF NumCandidates(i) = 0 THEN "not_found" ELSE "ambiguous" ]

C4_EmptySelectionCompletes ==
    (Selected /\ Len(student_skills) = 0)
        => /\ skills_of_interest = <<None, None, None>>
           /\ pc # "failed"

\* C5: the matched list holds, in query order and with repeats kept, the course
\* of every query that matched; once package_skills has returned, the count of a
\* skill is the number of its occurrences summed over the matched queries, a
\* query repeated k times counting k times.
C5_OrderAndDuplicatesKept ==
    /\ (pc = "find" \/ FindReturned) =>
          LET m == MatchedIdx(qi - 1)
          IN  /\ Len(found_student_courses) = Cardinality(m)
              /\ \A k \in 1..Cardinality(m) :
                    found_student_courses[k] =
                        Candidates(Queries[NthOf(m, k)][2], all_courses)[1]
    /\ PackageReturned =>
          \A id \in SkillIds :
              LET perQuery ==
                      [i \in 1..Len(Queries) |->
                          IF NumCandidates(i) = 1
                          THEN Len(OccurrencesOf(id,
                                   << Candidates(Queries[i][2], all_courses)[1] >>))
                          ELSE 0]
                  total == IF Len(Queries) = 0 THEN 0
                           ELSE LET S[i \in 1..Len(Queries)] ==
                                        perQuery[i] + (IF i = 1 THEN 0 ELSE S[i - 1])
                                IN  S[Len(Queries)]
              IN  IF total = 0 THEN ~HasSkill(student_skills, id)
                  ELSE /\ HasSkill(student_skills, id)
                       /\ student_skills[IndexOfSkill(student_skills, id)].count = total

\* One query repeated against a uniquely matching course that teaches a skill.
C5_Witness ==
    /\ PackageReturned
    /\ Len(Queries) = 2
    /\ Queries[1] = Queries[2]
    /\ Len(course_skill_data) = 2
    /\ course_skill_data[1] = course_skill_data[2]
    /\ HasSkill(student_skills, "s1")
    /\ student_skills[IndexOfSkill(student_skills, "s1")].count = 2

\* C6: at every step of package_skills and in the map it returns, every record
\* has count = len(courses) and count >= 1.
C6_CountIsLenCourses ==
    \A k \in 1..Len(student_skills) :
        /\ student_skills[k].count = Len(student_skills[k].courses)
        /\ student_skills[k].count >= 1

\* In the middle of the aggregation, a record that has been updated.
C6_Witness ==
    /\ pc = "package"
    /\ ci <= Len(course_skill_data)
    /\ \E k \in 1..Len(student_skills) : student_skills[k].count >= 2

\* C7: the map package_skills returns has exactly the skill ids of the matched
\* courses' curated lists as keys; each record's count, sum_skill_level,
\* max_skill_level and courses are the number, the sum of the levels, the
\* greatest level and the (course code, level) pairs of that skill's
\* occurrences in processing order.
C7_AggregateIsFoldOfOccurrences ==
    PackageReturned =>
        LET all == OccurrencesFrom(1, course_skill_data)
        IN  /\ {student_skills[k].id : k \in 1..Len(student_skills)}
                  = {all[j][2].skill_id : j \in 1..Len(all)}
            /\ \A k, l \in 1..Len(student_skills) :
                  student_skills[k].id = student_skills[l].id => k = l
            /\ \A k \in 1..Len(student_skills) :
                  LET r == student_skills[k]
                      occ == OccurrencesOf(r.id, course_skill_data)
                  IN  /\ r.count = Len(occ)
                      /\ r.sum_skill_level = SumLevels(occ)
                      /\ r.max_skill_level =
                            MaxOf({occ[j][2].skill_level : j \in 1..Len(occ)})
                      /\ r.courses =
                            [j \in 1..Len(occ) |-> <<occ[j][1], occ[j][2].skill_level>>]

\* A skill met three times, in two courses, whose greatest level is not the
\* first one met.
C7_Witness ==
    /\ PackageReturned
    /\ \E k \in 1..Len(student_skills) :
          /\ student_skills[k].count = 3
          /\ student_skills[k].courses[1][1] # student_skills[k].courses[3][1]
          /\ student_skills[k].max_skill_level > student_skills[k].courses[1][2]

\* C8: a second run of get_skills_of_interest on the map the first run left
\* returns the same three identifiers and leaves every record, its stored
\* average included, as the first run left it.
C8_SelectIdempotent ==
    [][ (select_runs >= 1 /\ select_runs' = select_runs + 1)
        => /\ skills_of_interest' = skills_of_interest
           /\ student_skills' = student_skills ]_vars

\* The second run has happened, on a map of two skills of different averages.
C8_Witness ==
    /\ select_runs = 2
    /\ Len(student_skills) = 2
    /\ student_skills[1].skill_level_average # student_skills[2].skill_level_average
    /\ student_skills[1].skill_level_average[2] = 2

\* The next step of package_skills meets a skill the map already holds.
AtLaterOccurrence ==
    /\ pc = "package"
    /\ ci <= Len(course_skill_data)
    /\ si <= Len(course_skill_data[ci].skills_curated)
    /\ HasSkill(student_skills, course_skill_data[ci].skills_curated[si].skill_id)

\* What that step may change: count, max_skill_level, sum_skill_level and
\* courses of the one record.
LaterOccurrenceFrame ==
    LET id == course_skill_data[ci].skills_curated[si].skill_id
        i  == IndexOfSkill(student_skills, id)
    IN  /\ Len(student_skills') = Len(student_skills)
        /\ \A k \in 1..Len(student_skills) :
              k # i => student_skills'[k] = student_skills[k]
        /\ student_skills'[i] =
              [ student_skills[i] EXCEPT
                  !.count = student_skills'[i].count,
                  !.max_skill_level = student_skills'[i].max_skill_level,
                  !.sum_skill_level = student_skills'[i].sum_skill_level,
                  !.courses = student_skills'[i].courses ]

\* Name, category and frequency of every record are those of the skill's first
\* occurrence in processing order.
FirstOccurrenceMeta ==
    PackageReturned =>
        \A k \in 1..Len(student_skills) :
            LET r == student_skills[k]
                first == OccurrencesOf(r.id, course_skill_data)[1][2]
            IN  /\ r.name = first.skill
                /\ r.category = first.skill_category
                /\ r.frequency = first.frequency

\* C9: a record's name, category and frequency are those of the first
\* occurrence of its skill id; a later occurrence of that id leaves them as they
\* are and changes only count, max_skill_level, sum_skill_level and courses of
\* that record, and no other record.
C9_FirstWriteWins ==
    /\ []FirstOccurrenceMeta
    /\ [][AtLaterOccurrence => LaterOccurrenceFrame]_vars

\* A later occurrence that carried another name has just been folded in.
C9_Witness ==
    /\ pc = "package"
    /\ ci <= Len(course_skill_data)
    /\ si > 1
    /\ LET sk == course_skill_data[ci].skills_curated[si - 1]
       IN  /\ HasSkill(student_skills, sk.skill_id)
           /\ LET r == student_skills[IndexOfSkill(student_skills, sk.skill_id)]
              IN  /\ r.count >= 2
                  /\ r.name # sk.skill
                  /\ r.category # sk.skill_category
                  /\ r.frequency # sk.frequency

\* Every level folded into the map is positive (the frequencies of the
\* catalogues are finite numbers).
PositiveLevels ==
    \A k \in 1..Len(student_skills) :
        \A j \in 1..Len(student_skills[k].courses) : student_skills[k].courses[j][2] > 0

\* The first index, in iteration order, that no index beats.
FirstBest(n, Beats(_, _)) ==
    CHOOSE k \in 1..n :
        /\ \A j \in 1..n : ~Beats(j, k)
        /\ \A j \in 1..(k - 1) : Beats(k, j)

\* C10: on a non-empty map of positive levels and finite frequencies,
\* get_skills_of_interest returns three identifiers, none of them None: the
\* first skill in iteration order among those of greatest count, the first
\* among those of greatest sum_skill_level / count, the first among those of
\* smallest frequency.
C10_FirstOfTheBest ==
    (Selected /\ Len(student_skills) >= 1 /\ PositiveLevels) =>
        LET n == Len(student_skills)
            MoreCommon(a, b) == student_skills[a].count > student_skills[b].count
            HigherAverage(a, b) ==
                student_skills[a].sum_skill_level * student_skills[b].count
                    > student_skills[b].sum_skill_level * student_skills[a].count
            Rarer(a, b) == student_skills[a].frequency < student_skills[b].frequency
        IN  /\ \A k \in 1..3 : skills_of_interest[k] # None
            /\ skills_of_interest[1] = student_skills[FirstBest(n, MoreCommon)].id
            /\ skills_of_interest[2] = student_skills[FirstBest(n, HigherAverage)].id
            /\ skills_of_interest[3] = student_skills[FirstBest(n, Rarer)].id

\* Two skills tie in count and in frequency and the second has the higher
\* average: the first keeps the count and the frequency, the second takes the
\* average.
C10_Witness ==
    /\ Selected
    /\ PositiveLevels
    /\ Len(student_skills) = 2
    /\ student_skills[1].count = student_skills[2].count
    /\ student_skills[1].frequency = student_skills[2].frequency
    /\ skills_of_interest =
          <<student_skills[1].id, student_skills[2].id, student_skills[1].id>>

====
